---- MODULE Spec2Model ----
(***************************************************************************)
(* The session relay of src/src/app/api/socket/route.ts, with the token    *)
(* service (src/src/lib/auth.ts), the activity log of the record store     *)
(* (src/src/lib/database.ts), the connected flag of the device simulator   *)
(* (src/unnamed/part_001), the login route and the dashboard hook          *)
(* useAdminSocket (src/src/hooks/useSocket.ts).                            *)
(*                                                                         *)
(* A handler that awaits logActivity is split at the await: the part       *)
(* before it is one action, the write is a pending task, and the part      *)
(* after it runs when the write resolves or rejects.                       *)
(***************************************************************************)
EXTENDS Integers, Sequences, FiniteSets, TLC

\* ---------------------------------------------------------------- bounds
NumConns == 2
MaxLog == 1

Conns == 1..NumConns

\* ------------------------------------------------------------- identities
AdminIds == {"admin-001", "admin-002"}
DeviceIds == {"device-001", "device-002"}
NoAdmin == "undefined"
SystemDevice == "system"

\* ------------------------------------------------- token service (auth.ts)
JWT_SECRET == "remote-control-android-secret-key-2024"
OtherSecret == "some-other-secret"
JWT_EXPIRES_IN == 24

\* The result of a failed verification.
Null == [type |-> "null"]

\* The deviceId of a payload that has none.
NoDevice == "undefined"

\* What the signature of a token covers: the claims as they were signed.
Claims(userId, type, deviceId, iat, exp) == <<userId, type, deviceId, iat, exp>>

\* A jwt.sign that left the deviceId out of the token.
generateTokenWithoutDevice(payload, now) ==
    [form |-> "jwt", userId |-> payload.userId, type |-> payload.type,
     deviceId |-> NoDevice, iat |-> now, exp |-> now + JWT_EXPIRES_IN,
     signedWith |-> JWT_SECRET,
     signed |-> Claims(payload.userId, payload.type, NoDevice,
                       now, now + JWT_EXPIRES_IN)]

\* jwt.sign(payload, JWT_SECRET, {expiresIn: '24h'}) at hour `now`.
generateToken(payload, now) ==
    [form |-> "jwt", userId |-> payload.userId, type |-> payload.type,
     deviceId |-> payload.deviceId, iat |-> now, exp |-> now + JWT_EXPIRES_IN,
     signedWith |-> JWT_SECRET,
     signed |-> Claims(payload.userId, payload.type, payload.deviceId,
                       now, now + JWT_EXPIRES_IN)]

generateAdminToken(adminId, now) ==
    generateToken([userId |-> adminId, type |-> "admin", deviceId |-> NoDevice], now)

generateDeviceToken(adminId, deviceId, now) ==
    generateToken([userId |-> adminId, type |-> "device", deviceId |-> deviceId], now)

\* A token that is no JWT at all, and the absent token of a payload
\* that has no token field.
GarbageToken ==
    [form |-> "garbage", userId |-> "", type |-> "", deviceId |-> NoDevice,
     iat |-> 0, exp |-> 0, signedWith |-> "", signed |-> <<>>]
UndefinedToken ==
    [form |-> "undefined", userId |-> "", type |-> "", deviceId |-> NoDevice,
     iat |-> 0, exp |-> 0, signedWith |-> "", signed |-> <<>>]

\* The signature check of jwt.verify: made with the secret, over the claims
\* the token carries now.
signatureValid(token) ==
    /\ token.signedWith = JWT_SECRET
    /\ token.signed = Claims(token.userId, token.type, token.deviceId,
                             token.iat, token.exp)

\* A verification that did not look at the expiry.
verifyTokenNoExpiry(token, now) ==
    IF token.form = "jwt" /\ signatureValid(token)
    THEN [userId |-> token.userId, type |-> token.type, deviceId |-> token.deviceId,
          iat |-> token.iat, exp |-> token.exp]
    ELSE Null

\* jwt.verify inside try/catch: the payload, or null on any failure.
verifyToken(token, now) ==
    IF token.form = "jwt" /\ signatureValid(token) /\ now < token.exp
    THEN [userId |-> token.userId, type |-> token.type, deviceId |-> token.deviceId,
          iat |-> token.iat, exp |-> token.exp]
    ELSE Null


IsNull(decoded) == decoded.type = "null"

\* --------------------------------------------- device simulator (part_001)
\* The ids of DeviceSimulator.devices that the model uses.
KnownDevices == {"device-001", "device-002"}

\* An update that found no device and changed nothing.
updateDeviceConnectionLost(devices, deviceId, flag) == devices

\* device.connected = connected, for a device the simulator knows; the
\* lastSeen timestamp it also sets is not modelled.
updateDeviceConnection(devices, deviceId, flag) ==
    IF deviceId \in DOMAIN devices
    THEN [devices EXCEPT ![deviceId] = flag]
    ELSE devices

\* ------------------------------------------------------- event catalogue
ControlOps ==
    {"device:screenshot", "device:command", "device:files", "device:location",
     "device:camera", "device:audio", "device:apps", "device:notify"}

\* The event a handler emits after its simulator call returned.
ResultEvent(op) ==
    CASE op = "device:screenshot" -> "screen:update"
      [] op = "device:command"    -> "command:result"
      [] op = "device:files"      -> "file:list"
      [] op = "device:location"   -> "location:update"
      [] op = "device:camera"     -> "camera:result"
      [] op = "device:audio"      -> "audio:result"
      [] op = "device:apps"       -> "app:list"
      [] op = "device:notify"     -> "notification:sent"

\* The event the catch block of a handler emits.
ErrorEvent(op) ==
    IF op = "device:command" THEN "command:result" ELSE "error"

\* The fixed message of the catch block of a handler.
ErrorText(op) ==
    CASE op = "device:screenshot" -> "Screenshot failed"
      [] op = "device:command"    -> "Command execution failed"
      [] op = "device:files"      -> "File listing failed"
      [] op = "device:location"   -> "Location request failed"
      [] op = "device:camera"     -> "Camera capture failed"
      [] op = "device:audio"      -> "Audio recording failed"
      [] op = "device:apps"       -> "App listing failed"
      [] op = "device:notify"     -> "Notification failed"

\* The action name a handler gives to logActivity.
LogAction(op) ==
    CASE op = "device:screenshot" -> "screenshot_request"
      [] op = "device:command"    -> "command_execute"
      [] op = "device:files"      -> "file_browse"
      [] op = "device:location"   -> "location_request"
      [] op = "device:camera"     -> "camera_capture"
      [] op = "device:audio"      -> "audio_record"
      [] op = "device:apps"       -> "app_list"
      [] op = "device:notify"     -> "notification_send"

\* The simulator call of a control request.  `arg` is "ok" for an argument
\* of the declared type and "bad" for one the simulator cannot process:
\* executeCommand calls command.toLowerCase(), which throws a TypeError when
\* command is no string, and recordAudio passes the duration through
\* encodeURIComponent, which throws a URIError on a lone surrogate.  The
\* other six operations throw for no argument.
ExceptionText(op) ==
    IF op = "device:command"
    THEN "TypeError: command.toLowerCase is not a function"
    ELSE "URIError: URI malformed"

simulatorCall(op, deviceId, arg) ==
    IF arg = "bad" /\ op \in {"device:command", "device:audio"}
    THEN [threw |-> TRUE, message |-> ExceptionText(op)]
    ELSE [threw |-> FALSE, message |-> ""]

\* DeviceSimulator.devices: every id of the table.
SimulatorDevices == {"device-001", "device-002", "device-003"}

\* devices.find(device => device.id === deviceId) || null
getDeviceById(deviceId) ==
    IF deviceId \in SimulatorDevices
    THEN [type |-> "device", id |-> deviceId]
    ELSE Null

\* getFileSystem: the names of the listing; the device id is not looked at.
getFileSystem(deviceId, path) ==
    CASE path \in {"/", ""} ->
             <<"Android", "DCIM", "Download", "Documents", "Pictures", "Music", "Videos">>
      [] path = "/DCIM" -> <<"Camera">>
      [] path = "/Download" -> <<"document.pdf", "image.jpg">>
      [] OTHER -> <<>>

\* command.toLowerCase(), for the command strings of the model.
toLowerCase(command) ==
    CASE command = "PWD" -> "pwd"
      [] command = "LS" -> "ls"
      [] OTHER -> command

\* The keys of commandOutputs.
KnownCommands == {"ls", "pwd", "whoami", "date", "ps", "df", "getprop"}

\* executeCommand: lookup in commandOutputs, default exit code 127; the
\* device id is not looked at.
executeCommand(deviceId, command) ==
    IF toLowerCase(command) \in KnownCommands
    THEN [command |-> command, output |-> toLowerCase(command), exitCode |-> 0]
    ELSE [command |-> command, output |-> "not found", exitCode |-> 127]

\* --------------------------------------------------------------- payloads
\* The `data` argument of a handler; present = FALSE is an event sent
\* without a payload (data is undefined).  `arg` is the argument of the
\* operation: that of the simulator call of a control request, the
\* deviceInfo descriptor of a device:register.
Payload(present, token, adminId, deviceId, arg) ==
    [deviceId |-> deviceId, adminId |-> adminId, token |-> token,
     arg |-> arg, present |-> present]

NoPayload == Payload(FALSE, UndefinedToken, NoAdmin, "", "ok")

\* ------------------------------------------------------------------ state
VARIABLES
    status,            \* per connection: "idle" (not yet opened), "open", "closed"
    adminSessions,     \* Map socketId -> adminId
    connectedDevices,  \* Map deviceId -> registration {socketId, connectedAt, deviceInfo}
    registeredFor,     \* history: the adminId named by the request that made the entry
    replacedOwner,     \* history: the other connection whose entry the entry overwrote
                       \* (kept by SpecRegister and SpecOwnership only)
    rooms,             \* per connection: the admin ids whose room admin:<id> it joined
    simConnected,      \* DeviceSimulator.devices[..].connected
    activity,          \* the rows of activity_logs, in insertion order
    pending,           \* handlers suspended in `await logActivity(...)`
    emitted,           \* the events the last step delivered
    last,              \* the event the last step handled
    unhandled,         \* the last exception or rejection no handler caught
    http,              \* the last response of POST /api/auth/login
    localStorage,      \* admin_token and admin_id of the dashboard browser
    dashboard,         \* the relay connection of useAdminSocket and its progress
    call,              \* the last call of a library function: arguments and result
    promise            \* the promise of the last emitWithCallback, its timer and
                       \* the way of the event it emitted

vars ==
    <<status, adminSessions, connectedDevices, registeredFor, replacedOwner, rooms,
      simConnected, activity, pending, emitted, last, unhandled, http,
      localStorage, dashboard, call, promise>>

relayVars ==
    <<status, adminSessions, connectedDevices, registeredFor, replacedOwner, rooms,
      simConnected, activity, pending, emitted, last, unhandled>>

clientVars == <<http, localStorage, dashboard>>

libraryVars == <<call, promise>>

\* ------------------------------------------------------------ map helpers
EmptyMap == [x \in {} |-> 0]
MapSet(m, k, v) == [x \in (DOMAIN m) \cup {k} |-> IF x = k THEN v ELSE m[x]]
\* A Map whose delete forgot nothing.
MapDeleteNothing(m, k) == m

MapDelete(m, k) == [x \in (DOMAIN m) \ {k} |-> m[x]]
MapGet(m, k) == IF k \in DOMAIN m THEN m[k] ELSE NoAdmin

RemoveAt(s, i) == SubSeq(s, 1, i - 1) \o SubSeq(s, i + 1, Len(s))

\* ----------------------------------------------------------------- events
Ev(to, name, deviceId, adminId, success, text, list) ==
    [to |-> to, name |-> name, deviceId |-> deviceId, adminId |-> adminId,
     success |-> success, text |-> text, list |-> list]

\* socket.emit: delivered to the socket itself, if it is still connected.
socketEmit(c, name, deviceId, adminId, success, text, list) ==
    IF status[c] = "open"
    THEN {Ev(c, name, deviceId, adminId, success, text, list)}
    ELSE {}

\* A relay that broadcast to every joined connection, whatever its room.
roomMembersAll(c, adminId) == {r \in Conns : rooms[r] # {}}

\* The receivers of socket.to(`admin:${adminId}`).emit: the members of the
\* room but the sending socket.
roomMembers(c, adminId) == {r \in Conns : adminId \in rooms[r] /\ r # c}

Last(op, conn, data, now, req, outcome, removed) ==
    [op |-> op, conn |-> conn, data |-> data, now |-> now, req |-> req,
     outcome |-> outcome, removed |-> removed]

\* The bound of the model: a handler that would write to the activity log
\* is taken only while the log has room for its row.
CanLog == Len(activity) + Len(pending) < MaxLog

\* A suspended handler: what it needs after the await, and the row it writes.
Task(kind, c, op, deviceId, adminId, action, token) ==
    [kind |-> kind, conn |-> c, op |-> op, deviceId |-> deviceId,
     adminId |-> adminId, action |-> action, token |-> token]


\* -------------------------------------------------------------------- init
NoLast == Last("none", 0, NoPayload, 0, "none", "none", {})
NoResponse == [status |-> 0, token |-> UndefinedToken, adminId |-> NoAdmin]

NoCall == [fn |-> "none"]
NoPromise ==
    [state |-> "none", value |-> "", timer |-> "none", ack |-> "none",
     settled |-> 0, thrown |-> 0, event |-> "", timeout |-> 0,
     request |-> "none"]

\* The relay, the login route and the dashboard after load.
InitRelay ==
    /\ status = [c \in Conns |-> "idle"]
    /\ adminSessions = EmptyMap
    /\ connectedDevices = EmptyMap
    /\ registeredFor = EmptyMap
    /\ replacedOwner = EmptyMap
    /\ rooms = [c \in Conns |-> {}]
    /\ simConnected = [d \in KnownDevices |-> FALSE]
    /\ activity = <<>>
    /\ pending = <<>>
    /\ emitted = {}
    /\ last = NoLast
    /\ unhandled = "none"
    /\ http = NoResponse
    /\ localStorage = [admin_token |-> UndefinedToken, admin_id |-> NoAdmin]
    /\ dashboard = [conn |-> 0, pc |-> "unmounted", connectedDevices |-> <<>>]

Init ==
    /\ InitRelay
    /\ call = NoCall
    /\ promise = NoPromise

\* ------------------------------------- dashboard client: event listeners
\* handleDeviceConnect of useAdminSocket: append the id unless it is there.
handleDeviceConnect(prev, deviceId) ==
    IF \E i \in 1..Len(prev) : prev[i] = deviceId
    THEN prev
    ELSE Append(prev, deviceId)

\* handleDeviceDisconnect of useAdminSocket: prev.filter(id => id !== deviceId).
handleDeviceDisconnect(prev, deviceId) == SelectSeq(prev, LAMBDA id : id # deviceId)

RECURSIVE applyDisconnects(_, _)
applyDisconnects(prev, ids) ==
    IF ids = {}
    THEN prev
    ELSE LET d == CHOOSE x \in ids : TRUE
         IN  applyDisconnects(handleDeviceDisconnect(prev, d), ids \ {d})

\* The listeners the hook registers with socket.on: device:connect and
\* device:disconnect maintain the list; no listener is registered for
\* devices:list.  A step emits at most one device:connect to a connection,
\* and never together with a device:disconnect.
dashboardReceive(prev, events) ==
    LET gone == {e.deviceId : e \in {x \in events : x.name = "device:disconnect"}}
        come == {e.deviceId : e \in {x \in events : x.name = "device:connect"}}
        kept == applyDisconnects(prev, gone)
    IN  IF come = {}
        THEN kept
        ELSE handleDeviceConnect(kept, CHOOSE d \in come : TRUE)

\* ------------------------------------------------------ transport: delivery
\* The events of the last step reach their receivers (the dashboard's
\* listeners run) and the dispatcher of the relay takes the next event: the single-threaded event loop runs one
\* handler (or one continuation after an await) at a time.
Idle == last.op = "none"

Deliver ==
    /\ ~Idle
    /\ emitted' = {}
    /\ last' = NoLast
    /\ dashboard' =
           IF dashboard.conn = 0
           THEN dashboard
           ELSE [dashboard EXCEPT !.connectedDevices =
                    dashboardReceive(@, {e \in emitted : e.to = dashboard.conn})]
    /\ UNCHANGED <<status, adminSessions, connectedDevices, registeredFor, replacedOwner, rooms,
                   simConnected, activity, pending, unhandled, http, localStorage>>
    /\ UNCHANGED libraryVars

\* ------------------------------------------------------- relay: connection
\* io.on('connection'): a new socket; socket ids are handed out in order
\* and never reused.
Connection(c) ==
    /\ status[c] = "idle"
    /\ \A b \in Conns : b < c => status[b] # "idle"
    /\ status' = [status EXCEPT ![c] = "open"]
    /\ emitted' = {}
    /\ last' = Last("connection", c, NoPayload, 0, "none", "ok", {})
    /\ UNCHANGED <<adminSessions, connectedDevices, registeredFor, replacedOwner, rooms,
                   simConnected, activity, pending, unhandled>>

\* ------------------------------------------------ relay: admin:authenticate
\* A relay that accepted every verified token, whatever its type.
acceptsAnyRole(decoded) == ~IsNull(decoded)

\* The test `decoded && decoded.type === 'admin'`.
acceptsDecoded(decoded) == ~IsNull(decoded) /\ decoded.type = "admin"

AdminAuthenticate(c, data, now) ==
    /\ status[c] = "open"
    /\ LET decoded == IF data.present THEN verifyToken(data.token, now) ELSE Null
       IN  IF ~data.present
           THEN \* destructuring undefined throws inside the try block
                /\ emitted' = socketEmit(c, "admin:authenticated", "", NoAdmin,
                                         FALSE, "Authentication failed", {})
                /\ last' = Last("admin:authenticate", c, data, now, "none", "caught", {})
                /\ UNCHANGED <<adminSessions, pending>>
           ELSE IF acceptsDecoded(decoded)
           THEN /\ CanLog
                /\ adminSessions' = MapSet(adminSessions, c, decoded.userId)
                /\ emitted' = socketEmit(c, "admin:authenticated", "",
                                         decoded.userId, TRUE, "", {})
                /\ pending' = Append(pending,
                       Task("auth", c, "admin:authenticate", SystemDevice,
                            decoded.userId, "admin_websocket_connect", UndefinedToken))
                /\ last' = Last("admin:authenticate", c, data, now, "none", "ok", {})
           ELSE /\ emitted' = socketEmit(c, "admin:authenticated", "", NoAdmin,
                                         FALSE, "Invalid token", {})
                /\ last' = Last("admin:authenticate", c, data, now, "none", "refused", {})
                /\ UNCHANGED <<adminSessions, pending>>
    /\ UNCHANGED <<status, connectedDevices, registeredFor, replacedOwner, rooms, simConnected,
                   activity, unhandled>>

\* ------------------------------------------------------- relay: admin:join
\* Array.from(connectedDevices.values()): every registration, whoever the
\* registering request named.
devicesList(adminId) == DOMAIN connectedDevices

AdminJoin(c, data) ==
    /\ status[c] = "open"
    /\ IF ~data.present
       THEN \* destructuring undefined throws out of the synchronous handler
            /\ unhandled' = "uncaughtException"
            /\ emitted' = {}
            /\ last' = Last("admin:join", c, data, 0, "none", "threw", {})
            /\ UNCHANGED rooms
       ELSE /\ rooms' = [rooms EXCEPT ![c] = @ \cup {data.adminId}]
            /\ emitted' = socketEmit(c, "devices:list", "", NoAdmin, TRUE, "",
                                     devicesList(data.adminId))
            /\ last' = Last("admin:join", c, data, 0, "none", "ok", {})
            /\ UNCHANGED unhandled
    /\ UNCHANGED <<status, adminSessions, connectedDevices, registeredFor, replacedOwner,
                   simConnected, activity, pending>>

\* ---------------------------------------------------- relay: device:register
\* A connectedDevices.set that merged the new entry over the old one and
\* kept the descriptor of the device that was there.
registrationMerged(c, data, now) ==
    [socketId |-> c, connectedAt |-> now,
     deviceInfo |-> IF data.deviceId \in DOMAIN connectedDevices
                    THEN connectedDevices[data.deviceId].deviceInfo
                    ELSE data.arg]

\* {...deviceInfo, socketId: socket.id, connectedAt: new Date().toISOString()}:
\* the descriptor of the request (its `arg`), the socket and the time.
registration(c, data, now) ==
    [socketId |-> c, connectedAt |-> now, deviceInfo |-> data.arg]

\* The connection, other than c, whose entry for the device the chain of
\* entries up to this one overwrote; 0 when there is none.
overwrittenOwner(c, deviceId) ==
    IF deviceId \notin DOMAIN connectedDevices
    THEN 0
    ELSE IF connectedDevices[deviceId].socketId # c
    THEN connectedDevices[deviceId].socketId
    ELSE replacedOwner[deviceId]

\* The handler, run at time `now`.  What it overwrites is history: the
\* specification that runs it says whether replacedOwner records it.
DeviceRegister(c, data, now) ==
    /\ status[c] = "open"
    /\ IF ~data.present
       THEN /\ unhandled' = "uncaughtException"
            /\ emitted' = {}
            /\ last' = Last("device:register", c, data, now, "none", "threw", {})
            /\ UNCHANGED <<connectedDevices, registeredFor, simConnected>>
       ELSE /\ connectedDevices' =
                   MapSet(connectedDevices, data.deviceId, registration(c, data, now))
            /\ registeredFor' = MapSet(registeredFor, data.deviceId, data.adminId)
            /\ simConnected' = updateDeviceConnection(simConnected, data.deviceId, TRUE)
            /\ emitted' =
                   {Ev(r, "device:connect", data.deviceId, NoAdmin, TRUE, "", {}) :
                        r \in roomMembers(c, data.adminId)}
                   \cup socketEmit(c, "device:registered", data.deviceId, NoAdmin,
                                   TRUE, "", {})
            /\ last' = Last("device:register", c, data, now, "none", "ok", {})
            /\ UNCHANGED unhandled
    /\ UNCHANGED <<status, adminSessions, rooms, activity, pending>>


\* ------------------------------------------- relay: device:* control requests
\* A catch block that forwarded the text of the caught error.
errorReplyLeaky(c, op, deviceId, exc) ==
    socketEmit(c, ErrorEvent(op), deviceId, NoAdmin, FALSE, exc, {})

\* The catch block of a control-request handler; `exc` is the caught error.
errorReply(c, op, deviceId, exc) ==
    socketEmit(c, ErrorEvent(op), deviceId, NoAdmin, FALSE, ErrorText(op), {})

\* A handler that sent the result to every open connection.
resultReplyBroadcast(c, op, deviceId) ==
    {Ev(r, ResultEvent(op), deviceId, NoAdmin, TRUE, "", {}) :
         r \in {x \in Conns : status[x] = "open"}}

\* A handler that put off its result until after the activity-log write.
resultReplyDeferred(c, op, deviceId) == {}

\* The emit that follows the simulator call inside the try block.
resultReply(c, op, deviceId) ==
    socketEmit(c, ResultEvent(op), deviceId, NoAdmin, TRUE, "", {})

\* A handler that logged whether or not the socket has an admin id.
logsRequestAlways(c) == TRUE

\* `const adminId = adminSessions.get(socket.id); if (adminId) await logActivity`
logsRequest(c) == MapGet(adminSessions, c) # NoAdmin

DeviceRequest(c, op, data) ==
    /\ status[c] = "open"
    /\ IF ~data.present
       THEN \* destructuring undefined throws before the try block of the
            \* async handler: its promise rejects and nobody handles it
            /\ unhandled' = "unhandledRejection"
            /\ emitted' = {}
            /\ last' = Last(op, c, data, 0, "none", "threw", {})
            /\ UNCHANGED pending
       ELSE LET r == simulatorCall(op, data.deviceId, data.arg)
            IN  IF r.threw
                THEN /\ emitted' = errorReply(c, op, data.deviceId, r.message)
                     /\ last' = Last(op, c, data, 0, "none", "caught", {})
                     /\ UNCHANGED <<pending, unhandled>>
                ELSE /\ emitted' = resultReply(c, op, data.deviceId)
                     /\ IF logsRequest(c)
                        THEN /\ CanLog
                             /\ pending' = Append(pending,
                                    Task("request", c, op, data.deviceId,
                                         MapGet(adminSessions, c), LogAction(op),
                                         UndefinedToken))
                             /\ last' = Last(op, c, data, 0, "none", "logging", {})
                        ELSE /\ last' = Last(op, c, data, 0, "none", "ok", {})
                             /\ UNCHANGED pending
                     /\ UNCHANGED unhandled
    /\ UNCHANGED <<status, adminSessions, connectedDevices, registeredFor, replacedOwner, rooms,
                   simConnected, activity>>

\* ----------------------------------------------------------- relay: disconnect
\* A loop without the test `deviceData.socketId === socket.id`.
ownedByAnyone(c) == DOMAIN connectedDevices

\* The loop `for (const [deviceId, deviceData] of connectedDevices.entries())`
\* of the disconnect handler of socket c, with the handler's local adminId.
ownedBy(c) == {d \in DOMAIN connectedDevices : connectedDevices[d].socketId = c}

\* The room the loop notifies: that of the admin id bound to the closing socket.
notifiedAdmin(adminId, d) == adminId

removeConnectedDevices(c, adminId) ==
    /\ connectedDevices' = [d \in (DOMAIN connectedDevices) \ ownedBy(c) |->
                               connectedDevices[d]]
    /\ registeredFor' = [d \in (DOMAIN registeredFor) \ ownedBy(c) |->
                            registeredFor[d]]
    /\ replacedOwner' = [d \in (DOMAIN replacedOwner) \ ownedBy(c) |->
                            replacedOwner[d]]
    /\ simConnected' = [d \in DOMAIN simConnected |->
                           IF d \in ownedBy(c) THEN FALSE ELSE simConnected[d]]
    /\ emitted' =
           UNION { {Ev(r, "device:disconnect", d, NoAdmin, TRUE, "", {}) :
                        r \in IF notifiedAdmin(adminId, d) # NoAdmin
                              THEN {x \in Conns : notifiedAdmin(adminId, d) \in rooms[x]
                                                  /\ x # c}
                              ELSE {}} :
                   d \in ownedBy(c) }

removedPairs(c) == {<<d, registeredFor[d]>> : d \in ownedBy(c)}

\* socket.on('disconnect'): socket.io has already taken the socket out of
\* its rooms when the handler runs.
Disconnect(c) ==
    /\ status[c] = "open"
    /\ status' = [status EXCEPT ![c] = "closed"]
    /\ rooms' = [rooms EXCEPT ![c] = {}]
    /\ LET adminId == MapGet(adminSessions, c)
       IN  IF adminId # NoAdmin
           THEN /\ CanLog
                /\ adminSessions' = MapDelete(adminSessions, c)
                /\ pending' = Append(pending,
                       Task("disconnect", c, "disconnect", SystemDevice, adminId,
                            "admin_websocket_disconnect", UndefinedToken))
                /\ emitted' = {}
                /\ last' = Last("disconnect", c, NoPayload, 0, "none", "logging", {})
                /\ UNCHANGED <<connectedDevices, registeredFor, replacedOwner, simConnected>>
           ELSE /\ removeConnectedDevices(c, NoAdmin)
                /\ last' = Last("disconnect", c, NoPayload, 0, "none", "ok",
                                removedPairs(c))
                /\ UNCHANGED <<adminSessions, pending>>
    /\ UNCHANGED <<activity, unhandled>>

\* ------------------------------------------------ record store: logActivity
\* The INSERT of a pending logActivity succeeds; the handler that awaited it
\* resumes after the await.
LogActivityResolve(i) ==
    /\ Idle
    /\ i \in 1..Len(pending)
    /\ pending[i].kind # "login"
    /\ LET t == pending[i]
       IN  /\ activity' = Append(activity,
                  [deviceId |-> t.deviceId, adminId |-> t.adminId, action |-> t.action])
           /\ pending' = RemoveAt(pending, i)
           /\ IF t.kind = "disconnect"
              THEN /\ removeConnectedDevices(t.conn, t.adminId)
                   /\ last' = Last("logActivity", t.conn, NoPayload, 0, t.op,
                                   "resolved", removedPairs(t.conn))
              ELSE /\ emitted' = {}
                   /\ last' = Last("logActivity", t.conn,
                                   Payload(TRUE, UndefinedToken, t.adminId, t.deviceId, "ok"),
                                   0, t.op, "resolved", {})
                   /\ UNCHANGED <<connectedDevices, registeredFor, replacedOwner, simConnected>>
    /\ UNCHANGED <<status, adminSessions, rooms, unhandled, http, localStorage,
                   dashboard>>
    /\ UNCHANGED libraryVars

\* The INSERT (or initDatabase) of a pending logActivity fails: the await
\* throws inside the try block of the handler, if it has one.
LogActivityReject(i) ==
    /\ Idle
    /\ i \in 1..Len(pending)
    /\ pending[i].kind # "login"
    /\ LET t == pending[i]
       IN  /\ pending' = RemoveAt(pending, i)
           /\ last' = Last("logActivity", t.conn,
                           Payload(TRUE, UndefinedToken, t.adminId, t.deviceId, "ok"),
                           0, t.op, "rejected", {})
           /\ CASE t.kind = "auth" ->
                     /\ emitted' = socketEmit(t.conn, "admin:authenticated", "", NoAdmin,
                                              FALSE, "Authentication failed", {})
                     /\ UNCHANGED unhandled
                [] t.kind = "request" ->
                     /\ emitted' = errorReply(t.conn, t.op, t.deviceId, "SQLITE_ERROR")
                     /\ UNCHANGED unhandled
                [] t.kind = "disconnect" ->
                     /\ emitted' = {}
                     /\ unhandled' = "unhandledRejection"
    /\ UNCHANGED <<status, adminSessions, connectedDevices, registeredFor, replacedOwner, rooms,
                   simConnected, activity, http, localStorage, dashboard>>
    /\ UNCHANGED libraryVars

\* ------------------------------------------- login route: POST /auth/login
DEFAULT_ADMIN == [username |-> "admin", password |-> "admin123", id |-> "admin-001"]

\* A validation that looked at the username only.
validateAdminCredentialsNameOnly(username, password) ==
    IF username = DEFAULT_ADMIN.username
    THEN [success |-> TRUE, adminId |-> DEFAULT_ADMIN.id]
    ELSE [success |-> FALSE, adminId |-> NoAdmin]

\* validateAdminCredentials: exact match with the one configured identity.
validateAdminCredentials(username, password) ==
    IF username = DEFAULT_ADMIN.username /\ password = DEFAULT_ADMIN.password
    THEN [success |-> TRUE, adminId |-> DEFAULT_ADMIN.id]
    ELSE [success |-> FALSE, adminId |-> NoAdmin]

Response(code, token, adminId) == [status |-> code, token |-> token, adminId |-> adminId]

\* The body of a login request as the handler reads it.
LoginBody(body, username, password) ==
    [present |-> body # "invalid", token |-> UndefinedToken, adminId |-> NoAdmin,
     deviceId |-> "", arg |-> "ok", username |-> username, password |-> password]

\* The handler up to `await logActivity`.  body = "invalid" is a request
\* whose body request.json() cannot parse; an empty string stands for a
\* missing field.  The token is issued at hour `now`.
PostLogin(body, username, password, now) ==
    /\ Idle
    /\ last' = Last("POST /auth/login", 0, LoginBody(body, username, password),
                    now, "none", "ok", {})
    /\ emitted' = {}
    /\ IF body = "invalid"
       THEN /\ http' = Response(500, UndefinedToken, NoAdmin)
            /\ UNCHANGED pending
       ELSE IF username = "" \/ password = ""
       THEN /\ http' = Response(400, UndefinedToken, NoAdmin)
            /\ UNCHANGED pending
       ELSE LET result == validateAdminCredentials(username, password)
            IN  IF ~result.success
                THEN /\ http' = Response(401, UndefinedToken, NoAdmin)
                     /\ UNCHANGED pending
                ELSE /\ CanLog
                     /\ pending' = Append(pending,
                            Task("login", 0, "POST /auth/login", SystemDevice,
                                 result.adminId, "admin_login",
                                 generateAdminToken(result.adminId, now)))
                     /\ http' = NoResponse
    /\ UNCHANGED <<status, adminSessions, connectedDevices, registeredFor, replacedOwner, rooms,
                   simConnected, activity, unhandled, localStorage, dashboard>>
    /\ UNCHANGED libraryVars

\* logActivity of the login handler succeeded: the 200 response; the login
\* page stores its token and adminId in localStorage.
PostLoginLogged(i) ==
    /\ Idle
    /\ i \in 1..Len(pending)
    /\ pending[i].kind = "login"
    /\ LET t == pending[i]
           token == t.token
       IN  /\ activity' = Append(activity,
                  [deviceId |-> t.deviceId, adminId |-> t.adminId, action |-> t.action])
           /\ pending' = RemoveAt(pending, i)
           /\ http' = Response(200, token, t.adminId)
           /\ localStorage' = [admin_token |-> token, admin_id |-> t.adminId]
           /\ last' = Last("logActivity", 0, NoPayload, 0, t.op, "resolved", {})
    /\ emitted' = {}
    /\ UNCHANGED <<status, adminSessions, connectedDevices, registeredFor, replacedOwner, rooms,
                   simConnected, unhandled, dashboard>>
    /\ UNCHANGED libraryVars

\* logActivity (or initDatabase) of the login handler failed: the catch
\* block answers 500.
PostLoginFailed(i) ==
    /\ Idle
    /\ i \in 1..Len(pending)
    /\ pending[i].kind = "login"
    /\ pending' = RemoveAt(pending, i)
    /\ http' = Response(500, UndefinedToken, NoAdmin)
    /\ last' = Last("logActivity", 0, NoPayload, 0, pending[i].op, "rejected", {})
    /\ emitted' = {}
    /\ UNCHANGED <<status, adminSessions, connectedDevices, registeredFor, replacedOwner, rooms,
                   simConnected, activity, unhandled, localStorage, dashboard>>
    /\ UNCHANGED libraryVars

\* --------------------------------------- dashboard client: useAdminSocket
\* DashboardLayout reads admin_id from localStorage and useSocket opens the
\* relay connection.
DashboardConnect(c) ==
    /\ Idle
    /\ dashboard.pc = "unmounted"
    /\ localStorage.admin_id # NoAdmin
    /\ localStorage.admin_token # UndefinedToken
    /\ Connection(c)
    /\ dashboard' = [conn |-> c, pc |-> "connected", connectedDevices |-> <<>>]
    /\ UNCHANGED <<http, localStorage>>
    /\ UNCHANGED libraryVars

\* The payload of the hook's `socket.emit('admin:authenticate', { adminId })`.
authenticatePayload(adminId) == Payload(TRUE, UndefinedToken, adminId, "", "ok")

\* The effect of useAdminSocket, first emit; the relay handles it at `now`.
DashboardAuthenticate(now) ==
    /\ Idle
    /\ dashboard.pc = "connected"
    /\ AdminAuthenticate(dashboard.conn, authenticatePayload(localStorage.admin_id), now)
    /\ dashboard' = [dashboard EXCEPT !.pc = "authenticateSent"]
    /\ UNCHANGED <<http, localStorage>>
    /\ UNCHANGED libraryVars

\* The effect of useAdminSocket, second emit.
DashboardJoin ==
    /\ Idle
    /\ dashboard.pc = "authenticateSent"
    /\ AdminJoin(dashboard.conn,
                   Payload(TRUE, UndefinedToken, localStorage.admin_id, "", "ok"))
    /\ dashboard' = [dashboard EXCEPT !.pc = "joined"]
    /\ UNCHANGED <<http, localStorage>>
    /\ UNCHANGED libraryVars

\* ------------------------------------- relay events of clients at large
OnConnection(c) == Idle /\ Connection(c) /\ UNCHANGED <<clientVars, libraryVars>>

OnAdminAuthenticate(c, data, now) ==
    Idle /\ AdminAuthenticate(c, data, now) /\ UNCHANGED <<clientVars, libraryVars>>

OnAdminJoin(c, data) == Idle /\ AdminJoin(c, data) /\ UNCHANGED <<clientVars, libraryVars>>

OnDeviceRegister(c, data, now) ==
    /\ Idle
    /\ DeviceRegister(c, data, now)
    /\ UNCHANGED <<replacedOwner, clientVars, libraryVars>>

\* The same handler, with the overwritten owner recorded.
OnDeviceRegisterObserved(c, data, now) ==
    /\ Idle
    /\ DeviceRegister(c, data, now)
    /\ replacedOwner' =
           IF data.present
           THEN MapSet(replacedOwner, data.deviceId, overwrittenOwner(c, data.deviceId))
           ELSE replacedOwner
    /\ UNCHANGED <<clientVars, libraryVars>>

OnDeviceRequest(c, op, data) ==
    Idle /\ DeviceRequest(c, op, data) /\ UNCHANGED <<clientVars, libraryVars>>

OnDisconnect(c) == Idle /\ Disconnect(c) /\ UNCHANGED <<clientVars, libraryVars>>

\* ----------------------------------------------------------- specifications
\* Hours at which the relay verifies a token issued at hour 0: before and
\* after its expiry.
Hours == {1, 25}

AdminToken == generateAdminToken(DEFAULT_ADMIN.id, 0)

\* What a relay client can present as a token: the token of a login, a
\* device-role token, a token for another admin id signed with another
\* secret, the token of a login with its userId altered, a string that is
\* no token, and nothing.
RelayTokens ==
    {AdminToken,
     generateDeviceToken(DEFAULT_ADMIN.id, "device-001", 0),
     [generateAdminToken("admin-002", 0) EXCEPT !.signedWith = OtherSecret],
     [AdminToken EXCEPT !.userId = "admin-002"],
     GarbageToken, UndefinedToken}

CoreTokens == {AdminToken, UndefinedToken}
CoreDevices == DeviceIds

Data(token, adminId, deviceId, arg) == Payload(TRUE, token, adminId, deviceId, arg)

\* Spec: connections, sessions, rooms and registrations, with well-formed
\* payloads.
Next ==
    \/ \E c \in Conns : OnConnection(c)
    \/ \E c \in Conns, t \in CoreTokens :
           OnAdminAuthenticate(c, Data(t, NoAdmin, "", "ok"), 1)
    \/ \E c \in Conns, a \in AdminIds :
           OnAdminJoin(c, Data(UndefinedToken, a, "", "ok"))
    \/ \E c \in Conns, a \in AdminIds, d \in CoreDevices :
           OnDeviceRegister(c, Data(UndefinedToken, a, d, "ok"), 0)
    \/ \E c \in Conns : OnDisconnect(c)
    \/ \E i \in 1..MaxLog : LogActivityResolve(i)
    \/ \E i \in 1..MaxLog : LogActivityReject(i)
    \/ Deliver

Spec == Init /\ [][Next]_vars

\* SpecAuth: authentication with every kind of token, at both hours.
NextAuth ==
    \/ \E c \in Conns : OnConnection(c)
    \/ \E c \in Conns, t \in RelayTokens, now \in Hours :
           OnAdminAuthenticate(c, Data(t, NoAdmin, "", "ok"), now)
    \/ \E c \in Conns : OnAdminAuthenticate(c, NoPayload, 1)
    \/ \E c \in Conns : OnDisconnect(c)
    \/ \E i \in 1..MaxLog : LogActivityResolve(i)
    \/ \E i \in 1..MaxLog : LogActivityReject(i)
    \/ Deliver

SpecAuth == Init /\ [][NextAuth]_vars

RequestDevices == {"device-001"}

\* Every operation with an argument its simulator call accepts, and the two
\* whose simulator call can throw with one it does not.
RequestInputs ==
    {[op |-> op, deviceId |-> d, arg |-> "ok"] : op \in ControlOps, d \in RequestDevices}
    \cup {[op |-> op, deviceId |-> d, arg |-> "bad"] :
              op \in {"device:command", "device:audio"}, d \in RequestDevices}

\* SpecRequests: the eight control requests, from bound and unbound
\* connections.
NextRequests ==
    \/ \E c \in Conns : OnConnection(c)
    \/ \E c \in Conns : OnAdminAuthenticate(c, Data(AdminToken, NoAdmin, "", "ok"), 1)
    \/ \E c \in Conns : OnAdminJoin(c, Data(UndefinedToken, DEFAULT_ADMIN.id, "", "ok"))
    \/ \E c \in Conns, d \in RequestDevices :
           OnDeviceRegister(c, Data(UndefinedToken, DEFAULT_ADMIN.id, d, "ok"), 0)
    \/ \E c \in Conns, r \in RequestInputs :
           OnDeviceRequest(c, r.op, Data(UndefinedToken, NoAdmin, r.deviceId, r.arg))
    \/ \E c \in Conns : OnDisconnect(c)
    \/ \E i \in 1..MaxLog : LogActivityResolve(i)
    \/ \E i \in 1..MaxLog : LogActivityReject(i)
    \/ Deliver

SpecRequests == Init /\ [][NextRequests]_vars

\* SpecFaults: events without payload, failing record-store writes and the
\* login route.
NextFaults ==
    \/ \E c \in Conns : OnConnection(c)
    \/ \E c \in Conns, data \in {Data(AdminToken, NoAdmin, "", "ok"), NoPayload} :
           OnAdminAuthenticate(c, data, 1)
    \/ \E c \in Conns,
          data \in {Data(UndefinedToken, DEFAULT_ADMIN.id, "", "ok"), NoPayload} :
           OnAdminJoin(c, data)
    \/ \E c \in Conns,
          data \in {Data(UndefinedToken, DEFAULT_ADMIN.id, "device-001", "ok"),
                    NoPayload} :
           OnDeviceRegister(c, data, 0)
    \/ \E c \in Conns, op \in ControlOps,
          data \in {Data(UndefinedToken, NoAdmin, "device-001", "ok"),
                    Data(UndefinedToken, NoAdmin, "device-001", "bad"), NoPayload} :
           OnDeviceRequest(c, op, data)
    \/ \E c \in Conns : OnDisconnect(c)
    \/ \E i \in 1..MaxLog : LogActivityResolve(i)
    \/ \E i \in 1..MaxLog : LogActivityReject(i)
    \/ \E body \in {"json", "invalid"}, u \in {"admin", "root", ""},
          pw \in {"admin123", "letmein", ""} : PostLogin(body, u, pw, 0)
    \/ \E i \in 1..MaxLog : PostLoginLogged(i)
    \/ \E i \in 1..MaxLog : PostLoginFailed(i)
    \/ Deliver

SpecFaults == Init /\ [][NextFaults]_vars

\* SpecDashboard: a login, the dashboard that follows it, and devices
\* registering and leaving meanwhile.  The only activity-log write here is
\* the login's: the hook's authenticate carries no token, so no connection
\* is bound and no relay handler awaits a write.
NextDashboard ==
    \/ \E u \in {"admin", "root"}, pw \in {"admin123", "letmein"} :
          PostLogin("json", u, pw, 0)
    \/ \E i \in 1..MaxLog : PostLoginLogged(i)
    \/ \E i \in 1..MaxLog : PostLoginFailed(i)
    \/ \E c \in Conns : DashboardConnect(c)
    \/ \E now \in Hours : DashboardAuthenticate(now)
    \/ DashboardJoin
    \/ \E c \in Conns : OnConnection(c)
    \/ \E c \in Conns, a \in AdminIds, d \in CoreDevices :
           OnDeviceRegister(c, Data(UndefinedToken, a, d, "ok"), 0)
    \/ \E c \in Conns : OnDisconnect(c)
    \/ Deliver

SpecDashboard == Init /\ [][NextDashboard]_vars

\* ---------------------------------------------- token service: calls
\* SpecTokens: a token is issued for a payload, possibly altered by its
\* bearer, and verified at some hour.
TokenSubjects == {"admin-001", "admin-002"}
TokenRoles == {"admin", "device"}
TokenDevices == {NoDevice, "device-001"}
IssueHours == {0, 1}
VerifyOffsets == {0, 23, 24, 25}
Alterations == {"userId", "type", "exp", "resign", "garbage", "undefined"}

\* What a bearer without the secret can make of a token.
alterToken(token, kind) ==
    CASE kind = "userId" ->
             [token EXCEPT !.userId = IF @ = "admin-001" THEN "admin-002" ELSE "admin-001"]
      [] kind = "type" ->
             [token EXCEPT !.type = IF @ = "admin" THEN "device" ELSE "admin"]
      [] kind = "exp" -> [token EXCEPT !.exp = @ + JWT_EXPIRES_IN]
      [] kind = "resign" -> [token EXCEPT !.signedWith = OtherSecret]
      [] kind = "garbage" -> GarbageToken
      [] OTHER -> UndefinedToken

InitTokens ==
    /\ InitRelay
    /\ promise = NoPromise
    /\ \E u \in TokenSubjects, r \in TokenRoles, d \in TokenDevices, i \in IssueHours :
           call = [fn |-> "input",
                   payload |-> [userId |-> u, type |-> r, deviceId |-> d],
                   iat |-> i, issued |-> UndefinedToken, token |-> UndefinedToken,
                   now |-> 0, result |-> Null]

IssueToken ==
    /\ call.fn = "input"
    /\ LET t == generateToken(call.payload, call.iat)
       IN  call' = [call EXCEPT !.fn = "generateToken", !.issued = t, !.token = t]
    /\ UNCHANGED <<relayVars, clientVars, promise>>

IssueAdminToken ==
    /\ call.fn = "input"
    /\ call.payload.type = "admin"
    /\ call.payload.deviceId = NoDevice
    /\ LET t == generateAdminToken(call.payload.userId, call.iat)
       IN  call' = [call EXCEPT !.fn = "generateAdminToken", !.issued = t, !.token = t]
    /\ UNCHANGED <<relayVars, clientVars, promise>>

IssueDeviceToken ==
    /\ call.fn = "input"
    /\ call.payload.type = "device"
    /\ call.payload.deviceId # NoDevice
    /\ LET t == generateDeviceToken(call.payload.userId, call.payload.deviceId, call.iat)
       IN  call' = [call EXCEPT !.fn = "generateDeviceToken", !.issued = t, !.token = t]
    /\ UNCHANGED <<relayVars, clientVars, promise>>

AlterToken(kind) ==
    /\ call.fn \in {"generateToken", "generateAdminToken", "generateDeviceToken"}
    /\ call' = [call EXCEPT !.fn = "alter", !.token = alterToken(call.issued, kind)]
    /\ UNCHANGED <<relayVars, clientVars, promise>>

VerifyToken(offset) ==
    /\ call.fn \in {"generateToken", "generateAdminToken", "generateDeviceToken", "alter"}
    /\ call' = [call EXCEPT !.fn = "verifyToken",
                            !.now = call.iat + offset,
                            !.result = verifyToken(call.token, call.iat + offset)]
    /\ UNCHANGED <<relayVars, clientVars, promise>>

NextTokens ==
    \/ IssueToken
    \/ IssueAdminToken
    \/ IssueDeviceToken
    \/ \E kind \in Alterations : AlterToken(kind)
    \/ \E offset \in VerifyOffsets : VerifyToken(offset)

SpecTokens == InitTokens /\ [][NextTokens]_vars

\* SpecLogin: login requests with well-formed and unreadable bodies, with
\* missing, wrong and right credentials, and activity-log writes that
\* succeed or fail.
LoginNames == {"admin", "Admin", "root", ""}
LoginPasswords == {"admin123", "letmein", ""}

NextLogin ==
    \/ \E body \in {"json", "invalid"}, u \in LoginNames, pw \in LoginPasswords,
          now \in IssueHours : PostLogin(body, u, pw, now)
    \/ \E i \in 1..MaxLog : PostLoginLogged(i)
    \/ \E i \in 1..MaxLog : PostLoginFailed(i)
    \/ Deliver

SpecLogin == Init /\ [][NextLogin]_vars

\* ------------------------------------------- client library: emitWithCallback
\* resolve and reject of a promise: only the first of them settles it.
settle(p, state, value) ==
    IF p.state = "pending"
    THEN [p EXCEPT !.state = state, !.value = value, !.settled = @ + 1]
    ELSE p

ClientEvents == ControlOps \cup {"admin:authenticate", "admin:join"}
Timeouts == {1000, 5000}

\* What the server can pass to the acknowledgement callback: an object
\* without an error field, an object with one, or nothing at all.
Acknowledgements == {"response", "error", "undefined"}

\* The executor of the promise: rejects at once without a connected
\* socket, else arms the timer and emits.
EmitWithCallback(event, timeout, connected) ==
    /\ promise.state = "none"
    /\ promise' =
           IF ~connected
           THEN [NoPromise EXCEPT !.state = "rejected",
                                  !.value = "Socket not connected",
                                  !.settled = 1, !.event = event, !.timeout = timeout]
           ELSE [NoPromise EXCEPT !.state = "pending", !.timer = "armed",
                                  !.event = event, !.timeout = timeout,
                                  !.request = "sent"]
    /\ UNCHANGED <<relayVars, clientVars, call>>

\* The callback of setTimeout.
TimerFires ==
    /\ promise.timer = "armed"
    /\ promise' = settle([promise EXCEPT !.timer = "fired"],
                         "rejected", "Socket emission timeout")
    /\ UNCHANGED <<relayVars, clientVars, call>>

\* The acknowledgement callback: clearTimeout, then `response.error` is
\* read, which throws a TypeError out of the callback when the server
\* acknowledged with nothing.
AckArrives(response) ==
    /\ promise.timer \in {"armed", "fired"}
    /\ promise.ack = "none"
    /\ LET cleared == [promise EXCEPT !.ack = response,
                                      !.timer = IF @ = "armed" THEN "cleared" ELSE @]
       IN  promise' =
               CASE response = "undefined" -> [cleared EXCEPT !.thrown = @ + 1]
                 [] response = "error" -> settle(cleared, "rejected", "error")
                 [] OTHER -> settle(cleared, "resolved", "response")
    /\ UNCHANGED <<relayVars, clientVars, call>>

NextEmit ==
    \/ \E event \in ClientEvents, timeout \in Timeouts, connected \in BOOLEAN :
           EmitWithCallback(event, timeout, connected)
    \/ TimerFires
    \/ \E response \in Acknowledgements : AckArrives(response)

SpecEmit == Init /\ [][NextEmit]_vars

\* ------------------------------------------------ device simulator: calls
\* SpecSimulator: the three lookups of the simulator, for device ids in and
\* out of its table.
SimulatorInputDevices == SimulatorDevices \cup {"device-999", ""}
SimulatorPaths == {"/", "", "/DCIM", "/Download", "/nowhere"}
SimulatorCommands == {"pwd", "PWD", "ls", "getprop", "rm -rf /"}

InitSimulator ==
    /\ InitRelay
    /\ promise = NoPromise
    /\ \E d \in SimulatorInputDevices, p \in SimulatorPaths, c \in SimulatorCommands :
           call = [fn |-> "input", deviceId |-> d, path |-> p, command |-> c,
                   result |-> Null]

GetDeviceById ==
    /\ call.fn = "input"
    /\ call' = [call EXCEPT !.fn = "getDeviceById",
                            !.result = getDeviceById(call.deviceId)]
    /\ UNCHANGED <<relayVars, clientVars, promise>>

GetFileSystem ==
    /\ call.fn = "input"
    /\ call' = [call EXCEPT !.fn = "getFileSystem",
                            !.result = getFileSystem(call.deviceId, call.path)]
    /\ UNCHANGED <<relayVars, clientVars, promise>>

ExecuteCommand ==
    /\ call.fn = "input"
    /\ call' = [call EXCEPT !.fn = "executeCommand",
                            !.result = executeCommand(call.deviceId, call.command)]
    /\ UNCHANGED <<relayVars, clientVars, promise>>

NextSimulator ==
    \/ GetDeviceById
    \/ GetFileSystem
    \/ ExecuteCommand

SpecSimulator == InitSimulator /\ [][NextSimulator]_vars

\* ------------------------------------------ record store: cleanupExpiredData
\* Retention of activity logs and of commands, in days.
ActivityRetentionDays == 30
CommandRetentionDays == 7

\* A sweep that flipped the active flag of expired sessions.
cleanupExpiredDataFlipping(db, now) ==
    [sessions |-> {IF s.expiresAt <= now THEN [s EXCEPT !.active = ~@] ELSE s :
                       s \in db.sessions},
     activity_logs |-> {a \in db.activity_logs : ~(a.timestamp < now - ActivityRetentionDays)},
     commands |-> {c \in db.commands : ~(c.createdAt < now - CommandRetentionDays)}]

\* The three statements of cleanupExpiredData, run at day `now`.
cleanupExpiredData(db, now) ==
    [sessions |-> {IF s.expiresAt <= now /\ s.active
                   THEN [s EXCEPT !.active = FALSE]
                   ELSE s : s \in db.sessions},
     activity_logs |-> {a \in db.activity_logs : ~(a.timestamp < now - ActivityRetentionDays)},
     commands |-> {c \in db.commands : ~(c.createdAt < now - CommandRetentionDays)}]

\* SpecStore: a store with sessions, activity rows and commands on both
\* sides of each deadline (and on it) is swept twice, with the clock
\* standing still or advancing between the sweeps.
SweepDays == {40}
ClockSteps == {1, 5}
StoredSessions ==
    {[id |-> "s1", expiresAt |-> 39, active |-> TRUE],
     [id |-> "s2", expiresAt |-> 40, active |-> TRUE],
     [id |-> "s3", expiresAt |-> 42, active |-> TRUE],
     [id |-> "s4", expiresAt |-> 39, active |-> FALSE]}
StoredActivity ==
    {[id |-> 1, timestamp |-> 5], [id |-> 2, timestamp |-> 10],
     [id |-> 3, timestamp |-> 12]}
StoredCommands ==
    {[id |-> "c1", createdAt |-> 30], [id |-> "c2", createdAt |-> 33],
     [id |-> "c3", createdAt |-> 35]}

InitStore ==
    /\ InitRelay
    /\ promise = NoPromise
    /\ \E s \in SUBSET StoredSessions, a \in SUBSET StoredActivity,
          c \in SUBSET StoredCommands, now \in SweepDays :
           LET db == [sessions |-> s, activity_logs |-> a, commands |-> c]
           IN  call = [fn |-> "input", initial |-> db, previous |-> db, db |-> db,
                       now |-> now, calls |-> 0, advanced |-> FALSE]

CleanupExpiredData ==
    /\ call.fn \in {"input", "cleanupExpiredData", "clock"}
    /\ call.calls < 2
    /\ call' = [call EXCEPT !.fn = "cleanupExpiredData",
                            !.previous = call.db,
                            !.db = cleanupExpiredData(call.db, call.now),
                            !.calls = @ + 1]
    /\ UNCHANGED <<relayVars, clientVars, promise>>

\* Time passes between the two sweeps.
ClockAdvances(days) ==
    /\ call.fn = "cleanupExpiredData"
    /\ call.calls = 1
    /\ call' = [call EXCEPT !.fn = "clock", !.now = @ + days, !.advanced = TRUE]
    /\ UNCHANGED <<relayVars, clientVars, promise>>

NextStore ==
    \/ CleanupExpiredData
    \/ \E days \in ClockSteps : ClockAdvances(days)

SpecStore == InitStore /\ [][NextStore]_vars

\* ------------------------------------------------- record store: commands
\* The ids uuidv4 hands out, in order; none is handed out twice.
CommandIds == <<"cmd-1", "cmd-2">>

\* The value of a column that holds NULL, and of a field that is undefined.
SqlNull == "NULL"

\* The INSERT of createCommand at time `now`: status takes its default
\* 'pending', created_at its default CURRENT_TIMESTAMP, the rest is NULL.
createCommand(commands, commandId, commandData, now) ==
    Append(commands,
           [id |-> commandId, deviceId |-> commandData.deviceId,
            command |-> commandData.command, status |-> "pending",
            output |-> SqlNull, error |-> SqlNull,
            createdAt |-> now, executedAt |-> <<>>])

\* The UPDATE of updateCommandResult at time `now`: every row WHERE id = ?,
\* whatever its status.
updateCommandResult(commands, commandId, result, now) ==
    [i \in 1..Len(commands) |->
        IF commands[i].id = commandId
        THEN [commands[i] EXCEPT !.status = result.status,
                                 !.output = result.output,
                                 !.error = result.error,
                                 !.executedAt = <<now>>]
        ELSE commands[i]]

\* The SELECT of getPendingCommands: rows are kept in insertion order,
\* which is the order of created_at.
getPendingCommands(commands, deviceId) ==
    SelectSeq(commands, LAMBDA r : r.deviceId = deviceId /\ r.status = "pending")

\* SpecCommands: commands are created, their results are reported (also
\* twice, and for ids the store does not hold), and the pending ones are
\* listed, while the clock advances.
CommandDevices == {"device-001", "device-002"}
CommandTexts == {"ls"}
CommandResults ==
    {[status |-> "success", output |-> "file.txt", error |-> SqlNull],
     [status |-> "error", output |-> SqlNull, error |-> "boom"],
     [status |-> "timeout", output |-> SqlNull, error |-> SqlNull]}
CommandClock == 1..3

InitCommands ==
    /\ InitRelay
    /\ promise = NoPromise
    /\ call = [fn |-> "input", commands |-> <<>>, now |-> 1, deviceId |-> "",
               result |-> <<>>]

CreateCommand(deviceId, command) ==
    /\ Len(call.commands) < Len(CommandIds)
    /\ call' = [call EXCEPT
                   !.fn = "createCommand",
                   !.commands = createCommand(@, CommandIds[Len(@) + 1],
                                    [deviceId |-> deviceId, command |-> command],
                                    call.now),
                   !.deviceId = deviceId,
                   !.result = <<CommandIds[Len(call.commands) + 1]>>]
    /\ UNCHANGED <<relayVars, clientVars, promise>>

UpdateCommandResult(commandId, result) ==
    /\ call' = [call EXCEPT
                   !.fn = "updateCommandResult",
                   !.commands = updateCommandResult(@, commandId, result, call.now),
                   !.deviceId = "",
                   !.result = <<>>]
    /\ UNCHANGED <<relayVars, clientVars, promise>>

GetPendingCommands(deviceId) ==
    /\ call' = [call EXCEPT
                   !.fn = "getPendingCommands",
                   !.deviceId = deviceId,
                   !.result = getPendingCommands(call.commands, deviceId)]
    /\ UNCHANGED <<relayVars, clientVars, promise>>

\* CURRENT_TIMESTAMP moves on.
CommandClockAdvances ==
    /\ call.now + 1 \in CommandClock
    /\ call' = [call EXCEPT !.fn = "clock", !.now = @ + 1, !.deviceId = "",
                            !.result = <<>>]
    /\ UNCHANGED <<relayVars, clientVars, promise>>

NextCommands ==
    \/ \E d \in CommandDevices, c \in CommandTexts : CreateCommand(d, c)
    \/ \E i \in 1..Len(CommandIds), r \in CommandResults :
           UpdateCommandResult(CommandIds[i], r)
    \/ \E r \in CommandResults : UpdateCommandResult("cmd-unknown", r)
    \/ \E d \in CommandDevices : GetPendingCommands(d)
    \/ CommandClockAdvances

SpecCommands == InitCommands /\ [][NextCommands]_vars

\* ------------------------------------------- relay: ownership of a device
\* SpecRegister: connections, some joined to the admin's room, register
\* the same devices (one of them unknown to the simulator) with different
\* descriptors at different times, and close.
RegisterDevices == {"device-001", "device-999"}
DeviceInfos == {"Pixel 7", "Galaxy S23"}
RegisterTimes == {1, 2}

NextRegister ==
    \/ \E c \in Conns : OnConnection(c)
    \/ \E c \in Conns : OnAdminJoin(c, Data(UndefinedToken, DEFAULT_ADMIN.id, "", "ok"))
    \/ \E c \in Conns, d \in RegisterDevices, info \in DeviceInfos, now \in RegisterTimes :
           OnDeviceRegisterObserved(c, Data(UndefinedToken, DEFAULT_ADMIN.id, d, info), now)
    \/ \E c \in Conns : OnDisconnect(c)
    \/ Deliver

SpecRegister == Init /\ [][NextRegister]_vars

\* SpecOwnership: connections, some bound to the admin and joined to its
\* room, register one device after another and close, with activity-log
\* writes that succeed or fail.
OwnedDevices == {"device-001", "device-002"}

NextOwnership ==
    \/ \E c \in Conns : OnConnection(c)
    \/ \E c \in Conns : OnAdminAuthenticate(c, Data(AdminToken, NoAdmin, "", "ok"), 1)
    \/ \E c \in Conns : OnAdminJoin(c, Data(UndefinedToken, DEFAULT_ADMIN.id, "", "ok"))
    \/ \E c \in Conns, d \in OwnedDevices :
           OnDeviceRegisterObserved(c, Data(UndefinedToken, DEFAULT_ADMIN.id, d, "ok"), 0)
    \/ \E c \in Conns : OnDisconnect(c)
    \/ \E i \in 1..MaxLog : LogActivityResolve(i)
    \/ \E i \in 1..MaxLog : LogActivityReject(i)
    \/ Deliver

SpecOwnership == Init /\ [][NextOwnership]_vars

\* SpecAccess: connections that never authenticated, and connections bound
\* to the admin of the login, join the room of either admin, register a
\* device naming either admin and send control requests, with activity-log
\* writes that succeed or fail.
AccessOps == {"device:screenshot", "device:command"}

NextAccess ==
    \/ \E c \in Conns : OnConnection(c)
    \/ \E c \in Conns : OnAdminAuthenticate(c, Data(AdminToken, NoAdmin, "", "ok"), 1)
    \/ \E c \in Conns, a \in AdminIds :
           OnAdminJoin(c, Data(UndefinedToken, a, "", "ok"))
    \/ \E c \in Conns, a \in AdminIds :
           OnDeviceRegister(c, Data(UndefinedToken, a, "device-001", "ok"), 0)
    \/ \E c \in Conns, op \in AccessOps :
           OnDeviceRequest(c, op, Data(UndefinedToken, NoAdmin, "device-001", "ok"))
    \/ \E i \in 1..MaxLog : LogActivityResolve(i)
    \/ \E i \in 1..MaxLog : LogActivityReject(i)
    \/ Deliver

SpecAccess == Init /\ [][NextAccess]_vars

\* ------------------------------- client library against this relay
\* A relay handler that called the acknowledgement callback with its result.
relayHandledAcknowledging(p) ==
    settle([p EXCEPT !.request = "handled", !.ack = "response",
                     !.timer = IF @ = "armed" THEN "cleared" ELSE @],
           "resolved", "response")

\* What the relay's handler does to the emitter's promise: every handler
\* is registered as (data) => ..., none takes or calls the callback.
relayHandled(p) == [p EXCEPT !.request = "handled"]

\* initSocket of the client library: the module's socket is a new
\* connection to the relay.
ClientInitSocket(c) ==
    /\ Idle
    /\ call = NoCall
    /\ Connection(c)
    /\ call' = [fn |-> "initSocket", socket |-> c]
    /\ UNCHANGED <<clientVars, promise>>

\* `socket && socket.connected` of the client library.
clientConnected == call.fn = "initSocket" /\ status[call.socket] = "open"

\* sendDeviceCommand, requestScreenshot, ..., authenticateAdmin and
\* joinAdminRoom: emitWithCallback with the default timeout or another.
ClientEmits(event, timeout) == EmitWithCallback(event, timeout, clientConnected)

\* The payload the library function of an event sends.
clientPayload(event) ==
    Data(IF event = "admin:authenticate" THEN AdminToken ELSE UndefinedToken,
         IF event = "admin:join" THEN DEFAULT_ADMIN.id ELSE NoAdmin,
         IF event \in ControlOps THEN "device-001" ELSE "",
         "ok")

\* The emitted event reaches the relay, whose handler for it runs.
RelayReceives ==
    /\ Idle
    /\ promise.request = "sent"
    /\ call.fn = "initSocket"
    /\ LET c == call.socket
           event == promise.event
           data == clientPayload(event)
       IN  CASE event = "admin:authenticate" -> AdminAuthenticate(c, data, 1)
             [] event = "admin:join" -> AdminJoin(c, data)
             [] OTHER -> DeviceRequest(c, event, data)
    /\ promise' = relayHandled(promise)
    /\ UNCHANGED <<clientVars, call>>

\* SpecClient: the client library connects (or not), sends one request
\* through emitWithCallback, the relay handles it, and the timer runs out;
\* meanwhile the client's connection may authenticate and close, and
\* activity-log writes succeed or fail.
NextClient ==
    \/ \E c \in Conns : ClientInitSocket(c)
    \/ \E c \in Conns : OnConnection(c)
    \/ \E c \in Conns : OnAdminAuthenticate(c, Data(AdminToken, NoAdmin, "", "ok"), 1)
    \/ \E event \in ClientEvents, timeout \in Timeouts : ClientEmits(event, timeout)
    \/ RelayReceives
    \/ TimerFires
    \/ \E c \in Conns : OnDisconnect(c)
    \/ \E i \in 1..MaxLog : LogActivityResolve(i)
    \/ \E i \in 1..MaxLog : LogActivityReject(i)
    \/ Deliver

SpecClient == Init /\ [][NextClient]_vars

\* ------------------------------------------------ record store: initDatabase
\* SpecInit: calls of initDatabase, bare (as in the login route and in
\* initSocketServer) or at the head of logActivity and getRecentActivity,
\* overlap in every way.  `db` is the module variable (0 for null),
\* `instances` the in-memory databases created so far, each with the
\* callers whose activity row it holds.
InitCallers == {"call-1", "call-2", "call-3"}

InitInit ==
    /\ InitRelay
    /\ promise = NoPromise
    /\ call = [fn |-> "input", caller |-> "", db |-> 0, instances |-> <<>>,
               pc |-> [t \in InitCallers |-> "idle"],
               own |-> [t \in InitCallers |-> 0],
               database |-> [t \in InitCallers |-> 0],
               result |-> {}]

\* initDatabase up to its first await: `if (db) return db`, else a new
\* sqlite Database(':memory:') whose tables are being created.
InitDatabaseEnters(t) ==
    /\ call.pc[t] = "idle"
    /\ call' =
           IF call.db # 0
           THEN [call EXCEPT !.fn = "initDatabase", !.caller = t,
                             !.pc[t] = "ready", !.database[t] = call.db]
           ELSE [call EXCEPT !.fn = "initDatabase", !.caller = t,
                             !.instances = Append(@, {}),
                             !.own[t] = Len(call.instances) + 1,
                             !.pc[t] = "creating"]
    /\ UNCHANGED <<relayVars, clientVars, promise>>

\* initDatabase after createTables and insertSampleData: `db = promiseDb;
\* return db`.
InitDatabaseCompletes(t) ==
    /\ call.pc[t] = "creating"
    /\ call' = [call EXCEPT !.fn = "initDatabase", !.caller = t,
                            !.db = call.own[t],
                            !.database[t] = call.own[t],
                            !.pc[t] = "ready"]
    /\ UNCHANGED <<relayVars, clientVars, promise>>

\* logActivity after `const database = await initDatabase()`: the INSERT.
LogActivityInserts(t) ==
    /\ call.pc[t] = "ready"
    /\ call' = [call EXCEPT !.fn = "logActivity", !.caller = t,
                            !.instances[call.database[t]] = @ \cup {t},
                            !.pc[t] = "wrote"]
    /\ UNCHANGED <<relayVars, clientVars, promise>>

\* getRecentActivity after `const database = await initDatabase()`: the
\* SELECT.
GetRecentActivitySelects(t) ==
    /\ call.pc[t] = "ready"
    /\ call' = [call EXCEPT !.fn = "getRecentActivity", !.caller = t,
                            !.result = call.instances[call.database[t]],
                            !.pc[t] = "read"]
    /\ UNCHANGED <<relayVars, clientVars, promise>>

NextInit ==
    \/ \E t \in InitCallers : InitDatabaseEnters(t)
    \/ \E t \in InitCallers : InitDatabaseCompletes(t)
    \/ \E t \in InitCallers : LogActivityInserts(t)
    \/ \E t \in InitCallers : GetRecentActivitySelects(t)

SpecInit == InitInit /\ [][NextInit]_vars

\* ------------------------------------------------------------------ claims
\* C1: a device:connect event comes only from a device:register, carries
\* the registered device id, and is delivered only to connections that are
\* joined to the room of the admin id the register names; a connection that
\* is joined only to another admin's room never receives it.
C1_ConnectOnlyToNamedRoom ==
    \A e \in emitted :
        e.name = "device:connect" =>
            /\ last.op = "device:register"
            /\ e.deviceId = last.data.deviceId
            /\ last.data.adminId \in rooms[e.to]

\* A register naming one admin was handled while another connection was
\* joined to the other admin's room only.
C1_Witness ==
    /\ last.op = "device:register"
    /\ \E c \in Conns :
           /\ c # last.conn
           /\ rooms[c] # {}
           /\ last.data.adminId \notin rooms[c]
           /\ \A e \in emitted : e.to # c

\* C2: when the disconnect handler of a connection has removed the
\* registration of device d, registered naming admin A, every connection
\* joined to room admin:A has been sent device:disconnect {deviceId: d},
\* whether or not the closing connection was bound to an admin.
C2_DisconnectReachesOwnerRoom ==
    \A p \in last.removed :
        \A r \in Conns :
            p[2] \in rooms[r] =>
                Ev(r, "device:disconnect", p[1], NoAdmin, TRUE, "", {}) \in emitted

\* C5: the devices:list that answers admin:join {adminId} holds exactly the
\* registered devices whose registration names that admin id.
C5_ListOnlyOwnDevices ==
    \A e \in emitted :
        e.name = "devices:list" =>
            e.list = {d \in DOMAIN connectedDevices :
                          registeredFor[d] = last.data.adminId}

\* C6: every connection is bound to at most one admin id, owns at most one
\* device registration, and is never both bound to an admin id and the
\* owner of a registration.
C6_OneRolePerConnection ==
    \A c \in Conns :
        /\ Cardinality({a \in AdminIds : MapGet(adminSessions, c) = a}) <= 1
        /\ Cardinality(ownedBy(c)) <= 1
        /\ ~(c \in DOMAIN adminSessions /\ ownedBy(c) # {})

\* A token the claim calls missing, malformed, expired, mis-signed or
\* device-role, presented at hour `now`.
BadToken(data, now) ==
    \/ ~data.present
    \/ data.token.form # "jwt"
    \/ ~signatureValid(data.token)
    \/ now >= data.token.exp
    \/ data.token.type = "device"

\* C3: a step binds a connection to an admin id, or changes its binding,
\* only if it handles an admin:authenticate of that connection whose token
\* verifyToken accepts with type admin and that userId; an authenticate
\* with a missing, malformed, expired, mis-signed or device-role token
\* leaves adminSessions as it is.
C3_BindingOnlyByVerifiedAdminToken ==
    [][ \A c \in Conns :
          /\ (c \in DOMAIN adminSessions'
                /\ MapGet(adminSessions', c) # MapGet(adminSessions, c))
             => /\ last'.op = "admin:authenticate"
                /\ last'.conn = c
                /\ last'.data.present
                /\ LET p == verifyToken(last'.data.token, last'.now)
                   IN  /\ ~IsNull(p)
                       /\ p.type = "admin"
                       /\ p.userId = adminSessions'[c]
          /\ (last'.op = "admin:authenticate" /\ BadToken(last'.data, last'.now))
             => adminSessions' = adminSessions
      ]_vars

\* A bound connection presented a token that was refused, and is still bound.
C3_Witness ==
    /\ last.op = "admin:authenticate"
    /\ last.outcome = "refused"
    /\ BadToken(last.data, last.now)
    /\ MapGet(adminSessions, last.conn) = DEFAULT_ADMIN.id

\* C4: once the dashboard of a logged-in admin has sent its authenticate
\* and its join, the relay has answered admin:authenticated {success: true}
\* and, while the connection is open, adminSessions binds it to the admin
\* id of the login.
C4_DashboardEndsAuthenticated ==
    /\ (dashboard.pc = "authenticateSent" /\ last.op = "admin:authenticate")
       => \E e \in emitted :
              e.to = dashboard.conn /\ e.name = "admin:authenticated" /\ e.success
    /\ (dashboard.pc = "joined" /\ status[dashboard.conn] = "open")
       => MapGet(adminSessions, dashboard.conn) = localStorage.admin_id

\* C7: when the handler of a control request has finished, the last row of
\* the activity log is the one it appended: it carries the requested device
\* id, the action of the operation and, if the connection is bound to an
\* admin, that admin id.
C7_RequestAppendsOneRecord ==
    LET sync == last.op \in ControlOps /\ last.outcome \in {"ok", "caught"}
        async == last.op = "logActivity" /\ last.req \in ControlOps
        op == IF sync THEN last.op ELSE last.req
    IN  (sync \/ async) =>
            /\ Len(activity) > 0
            /\ activity[Len(activity)].deviceId = last.data.deviceId
            /\ activity[Len(activity)].action = LogAction(op)
            /\ MapGet(adminSessions, last.conn) # NoAdmin
               => activity[Len(activity)].adminId = MapGet(adminSessions, last.conn)

\* C8: a step that handles a control request, or resumes its handler after
\* the activity-log write, emits to the requesting connection only, emits
\* the result event of the operation to it when the simulator call
\* returned, and changes neither adminSessions nor connectedDevices nor any
\* room membership.
C8_RequestTouchesOnlyRequester ==
    [][ LET step == last'
            request == step.op \in ControlOps
            resumed == step.op = "logActivity" /\ step.req \in ControlOps
        IN  (request \/ resumed) =>
                /\ \A e \in emitted' : e.to = step.conn
                /\ (request /\ step.outcome \in {"ok", "logging"})
                   => Ev(step.conn, ResultEvent(step.op), step.data.deviceId,
                         NoAdmin, TRUE, "", {}) \in emitted'
                /\ adminSessions' = adminSessions
                /\ connectedDevices' = connectedDevices
                /\ rooms' = rooms
      ]_vars

\* A request was answered while another connection was open, joined to a
\* room and bound, and a device was registered.
C8_Witness ==
    /\ last.op \in ControlOps
    /\ last.outcome \in {"ok", "logging"}
    /\ emitted # {}
    /\ connectedDevices # EmptyMap
    /\ \E c \in Conns :
           /\ c # last.conn
           /\ status[c] = "open"
           /\ rooms[c] # {}
           /\ c \in DOMAIN adminSessions

\* C9 as stated: when the simulator call of a control request throws, the
\* requesting connection gets exactly one event, an error with the device
\* id and the fixed message of the operation and without the text of the
\* exception, and no event with the name of the operation's result event is
\* emitted.
C9_ThrowGivesErrorAndNoResultEvent ==
    (last.op \in ControlOps /\ last.outcome = "caught") =>
        /\ Cardinality(emitted) = 1
        /\ \A e \in emitted :
               /\ e.to = last.conn
               /\ ~e.success
               /\ e.deviceId = last.data.deviceId
               /\ e.text = ErrorText(last.op)
               /\ e.text # ExceptionText(last.op)
               /\ e.name # ResultEvent(last.op)

\* C9 amended: when the simulator call of a control request throws, the
\* requesting connection gets exactly one event, which carries the device
\* id and the fixed message of the operation, not the text of the
\* exception, and is no successful result; it is named `error`, except for
\* device:command, whose failure is reported under the name command:result.
C9_ThrowGivesOneGenericError ==
    (last.op \in ControlOps /\ last.outcome = "caught") =>
        /\ Cardinality(emitted) = 1
        /\ \A e \in emitted :
               /\ e.to = last.conn
               /\ ~e.success
               /\ e.deviceId = last.data.deviceId
               /\ e.text = ErrorText(last.op)
               /\ e.text # ExceptionText(last.op)
               /\ e.name = IF last.op = "device:command"
                           THEN "command:result" ELSE "error"

\* The simulator call of a device:command threw.
C9_Witness ==
    /\ last.op = "device:command"
    /\ last.outcome = "caught"
    /\ \E e \in emitted : e.name = "command:result" /\ ~e.success

\* C10: no handler of the relay or of the login route ends with an
\* exception or a rejection that nothing catches.
C10_NoUncaughtFailure == unhandled = "none"

C12_FailedAuthenticateChangesNothing ==
    LET refused == /\ last.op = "admin:authenticate"
                   /\ last.outcome \in {"refused", "caught"}
        failedWrite == /\ last.op = "logActivity"
                       /\ last.req = "admin:authenticate"
                       /\ last.outcome = "rejected"
    IN  (refused \/ failedWrite) =>
            /\ \A e \in emitted :
                   e.to = last.conn /\ e.name = "admin:authenticated" /\ ~e.success
            /\ refused => (status[last.conn] = "open" /\ emitted # {})
            /\ failedWrite =>
                   (last.conn \in DOMAIN adminSessions =>
                        \E i \in 1..Len(activity) :
                            /\ activity[i].action = "admin_websocket_connect"
                            /\ activity[i].adminId = adminSessions[last.conn])

\* C13: every key of adminSessions is an open connection; a step adds a
\* key only by handling an admin:authenticate of that connection whose
\* token was accepted, removes a key only by handling the disconnect of
\* that connection, and leaves the bindings of all other connections as
\* they were.
C13_BindingsOfLiveConnections ==
    [][ /\ \A c \in DOMAIN adminSessions' : status'[c] = "open"
        /\ \A c \in (DOMAIN adminSessions') \ (DOMAIN adminSessions) :
               /\ last'.op = "admin:authenticate"
               /\ last'.outcome = "ok"
               /\ last'.conn = c
        /\ \A c \in (DOMAIN adminSessions) \ (DOMAIN adminSessions') :
               /\ last'.op = "disconnect"
               /\ last'.conn = c
               /\ status'[c] = "closed"
        /\ \A c \in Conns :
               c # last'.conn => MapGet(adminSessions', c) = MapGet(adminSessions, c)
      ]_vars

\* Two connections held the same admin id, one of them has just closed and
\* the other is still bound.
C13_Witness ==
    /\ last.op = "disconnect"
    /\ status[last.conn] = "closed"
    /\ \E i \in 1..Len(pending) :
           /\ pending[i].kind = "disconnect"
           /\ pending[i].conn = last.conn
           /\ \E c \in Conns :
                  c # last.conn /\ MapGet(adminSessions, c) = pending[i].adminId

\* C14: whenever the dashboard's connection is open, has joined the room
\* of its admin and every emitted event has been delivered, the
\* connectedDevices list of useAdminSocket holds exactly the device ids
\* registered at the relay for that admin, each once.
C14_DashboardListMirrorsRelay ==
    (/\ dashboard.pc = "joined"
     /\ status[dashboard.conn] = "open"
     /\ Idle
     /\ emitted = {}) =>
        LET list == dashboard.connectedDevices
        IN  /\ {list[i] : i \in 1..Len(list)} =
                   {d \in DOMAIN connectedDevices :
                        registeredFor[d] = localStorage.admin_id}
            /\ \A i, j \in 1..Len(list) : list[i] = list[j] => i = j

\* C15: verifyToken returns null for every token that is no JWT, is signed
\* with another secret, was altered after signing, or is verified at or
\* after its expiry 24 hours after issuance; it returns a payload, and then
\* the whole payload of the issued token, exactly for an unaltered token
\* signed with the shared secret and verified before its expiry.
C15_VerifyFailsClosed ==
    call.fn = "verifyToken" =>
        LET genuine == call.token = call.issued /\ call.now < call.iat + JWT_EXPIRES_IN
        IN  /\ ~genuine => call.result = Null
            /\ genuine =>
                   call.result = [userId |-> call.issued.userId,
                                  type |-> call.issued.type,
                                  deviceId |-> call.issued.deviceId,
                                  iat |-> call.iat,
                                  exp |-> call.iat + JWT_EXPIRES_IN]

\* A token whose expiry was pushed back by its bearer was verified 25 hours
\* after issuance and rejected.
C15_Witness ==
    /\ call.fn = "verifyToken"
    /\ call.token.form = "jwt"
    /\ call.token.signedWith = JWT_SECRET
    /\ call.token.exp > call.now
    /\ call.now = call.iat + 25
    /\ call.result = Null

\* C16: verifyToken of a freshly issued token, before its expiry, returns a
\* payload whose userId, type and deviceId are those the token was issued
\* for, for every subject, both roles and with or without a device id.
C16_IssueVerifyRoundTrip ==
    (/\ call.fn = "verifyToken"
     /\ call.token = call.issued
     /\ call.now < call.iat + JWT_EXPIRES_IN) =>
        /\ call.result # Null
        /\ call.result.userId = call.payload.userId
        /\ call.result.type = call.payload.type
        /\ call.result.deviceId = call.payload.deviceId

\* A device-role token with a device id was issued and verified 23 hours
\* later.
C16_Witness ==
    /\ call.fn = "verifyToken"
    /\ call.token = call.issued
    /\ call.payload.type = "device"
    /\ call.payload.deviceId # NoDevice
    /\ call.now = call.iat + 23
    /\ call.result # Null

\* C17: a login request whose username or password is missing is answered
\* 400, one whose pair is not exactly that of the configured admin 401,
\* both without a token; a request with the right pair gets no answer
\* before its activity-log write settles, then 200 with the adminId and a
\* token that verifyToken accepts as an admin token of that adminId, or,
\* when the write failed, 500 without a token.
C17_LoginResponses ==
    LET body == last.data
        handled == last.op = "POST /auth/login" /\ body.present
        settled == last.op = "logActivity" /\ last.req = "POST /auth/login"
        missing == body.username = "" \/ body.password = ""
        right == /\ body.username = DEFAULT_ADMIN.username
                 /\ body.password = DEFAULT_ADMIN.password
    IN  /\ (handled /\ missing) => http = Response(400, UndefinedToken, NoAdmin)
        /\ (handled /\ ~missing /\ ~right) => http = Response(401, UndefinedToken, NoAdmin)
        /\ (handled /\ right) =>
               /\ http = NoResponse
               /\ \E i \in 1..Len(pending) : pending[i].kind = "login"
        /\ (settled /\ last.outcome = "resolved") =>
               /\ http.status = 200
               /\ http.adminId = DEFAULT_ADMIN.id
               /\ LET decoded == verifyToken(http.token, http.token.iat)
                  IN  /\ decoded # Null
                      /\ decoded.userId = http.adminId
                      /\ decoded.type = "admin"
        /\ (settled /\ last.outcome = "rejected") =>
               http = Response(500, UndefinedToken, NoAdmin)

\* The activity-log write of a login with the right credentials failed.
C17_Witness ==
    /\ last.op = "logActivity"
    /\ last.req = "POST /auth/login"
    /\ last.outcome = "rejected"
    /\ http.status = 500
    /\ activity = <<>>

\* C18: the promise of emitWithCallback settles at most once; it is
\* rejected at once without a connected socket; once the acknowledgement
\* has arrived or the timeout has passed it has settled exactly once:
\* resolved with the acknowledgement, or rejected with its error, when the
\* acknowledgement came first, rejected with the timeout error otherwise;
\* a late acknowledgement changes nothing and raises no error.
C18_PromiseSettlesExactlyOnce ==
    /\ promise.settled <= 1
    /\ (promise.state # "none" /\ promise.timer = "none") =>
           /\ promise.state = "rejected"
           /\ promise.value = "Socket not connected"
    /\ promise.timer \in {"fired", "cleared"} => promise.settled = 1
    /\ promise.timer = "cleared" =>
           IF promise.ack = "error"
           THEN promise.state = "rejected" /\ promise.value = "error"
           ELSE promise.state = "resolved" /\ promise.value = promise.ack
    /\ promise.timer = "fired" =>
           /\ promise.state = "rejected"
           /\ promise.value = "Socket emission timeout"
           /\ promise.thrown = 0

\* C19: for a device id that is not in the simulator's table,
\* getDeviceById is null, getFileSystem is the empty sequence for every
\* path, and executeCommand returns exit code 127 for every command.
C19_UnknownDeviceYieldsNothing ==
    call.deviceId \notin SimulatorDevices =>
        /\ call.fn = "getDeviceById" => call.result = Null
        /\ call.fn = "getFileSystem" => call.result = <<>>
        /\ call.fn = "executeCommand" => call.result.exitCode = 127

\* C20: after two calls of cleanupExpiredData with no write between them
\* and the clock at the same reading, the sessions with their active
\* flags, the activity rows and the commands are those left by the first
\* call; when the clock advanced between the calls, they are those a
\* single call at the later reading leaves.
C20_CleanupIdempotent ==
    (call.fn = "cleanupExpiredData" /\ call.calls = 2) =>
        /\ ~call.advanced => call.db = call.previous
        /\ call.db = cleanupExpiredData(call.initial, call.now)

\* The first sweep expired a session and deleted an activity row and a
\* command, and the second sweep, at the same clock reading, has run.
C20_Witness ==
    /\ call.fn = "cleanupExpiredData"
    /\ call.calls = 2
    /\ ~call.advanced
    /\ call.previous.sessions # call.initial.sessions
    /\ call.previous.activity_logs # call.initial.activity_logs
    /\ call.previous.commands # call.initial.commands
    /\ call.previous.activity_logs # {}
    /\ call.db = call.previous


\* C21: every CommandRecord is created with status pending and changes
\* status at most once: an updateCommandResult leaves the status, output
\* and executed time of a record that already has a terminal status as they
\* were, and getPendingCommands returns no record with a terminal status.
C21_CommandSettlesOnce ==
    [][ LET old == call.commands
            new == call'.commands
        IN  /\ \A i \in 1..Len(new) :
                   i > Len(old) => new[i].status = "pending"
            /\ \A i \in 1..Len(old) :
                   old[i].status # "pending" =>
                       /\ new[i].status = old[i].status
                       /\ new[i].output = old[i].output
                       /\ new[i].executedAt = old[i].executedAt
            /\ call'.fn = "getPendingCommands" =>
                   \A i \in 1..Len(call'.result) :
                       /\ call'.result[i].status = "pending"
                       /\ call'.result[i].deviceId = call'.deviceId
      ]_vars


\* C22: when the disconnect handler of a connection has finished, whether
\* its activity-log write succeeded or failed, connectedDevices holds no
\* registration whose socketId is that connection, and the connected flag
\* of every device whose registration the handler removed is false.
C22_DisconnectRemovesRegistrations ==
    LET finished ==
            \/ last.op = "disconnect" /\ last.outcome = "ok"
            \/ /\ last.op = "logActivity"
               /\ last.req = "disconnect"
               /\ last.outcome \in {"resolved", "rejected"}
    IN  finished =>
            /\ ownedBy(last.conn) = {}
            /\ \A p \in last.removed :
                   p[1] \in KnownDevices => ~simConnected[p[1]]


\* C23: a device:register for device id d is accepted only in a state
\* where connectedDevices holds no registration for d whose owning
\* connection has closed, also while the disconnect handler of that
\* connection is suspended on its activity-log write.
C23_NoRegisterOverClosedOwner ==
    [][ (last'.op = "device:register" /\ last'.outcome = "ok") =>
            LET d == last'.data.deviceId
            IN  ~(/\ d \in DOMAIN connectedDevices
                  /\ status[connectedDevices[d].socketId] = "closed")
      ]_vars


\* C24: when a device:register has been handled, the registration of its
\* device id is entirely that of this request (its connection, its time,
\* its descriptor), whichever connection held the id before and whatever
\* descriptor it had given, and the connected flag of a device the
\* simulator knows is true: of two concurrent requests for one device id
\* the one handled last wins whole.
C24_LastRegisterWinsWhole ==
    (last.op = "device:register" /\ last.outcome = "ok") =>
        LET d == last.data.deviceId
        IN  /\ d \in DOMAIN connectedDevices
            /\ connectedDevices[d] =
                   [socketId |-> last.conn, connectedAt |-> last.now,
                    deviceInfo |-> last.data.arg]
            /\ d \in KnownDevices => simConnected[d]

\* A connection registered a device that another connection, still open,
\* had registered before.
C24_Witness ==
    /\ last.op = "device:register"
    /\ last.outcome = "ok"
    /\ last.data.deviceId \in KnownDevices
    /\ replacedOwner[last.data.deviceId] \in Conns \ {last.conn}
    /\ status[replacedOwner[last.data.deviceId]] = "open"
    /\ connectedDevices[last.data.deviceId].socketId = last.conn


\* C25: in every reachable state of the relay, which starts with no
\* registration and every flag false, the connected flag of each device
\* the simulator knows is true exactly when connectedDevices holds a
\* registration for its id, whatever the interleaving of register handlers
\* and of disconnect handlers, suspended on their activity-log write or not.
C25_FlagMirrorsRegistration ==
    \A d \in KnownDevices : simConnected[d] <=> d \in DOMAIN connectedDevices

\* The disconnect handler of a connection resumed after its activity-log
\* write and ran its loop, after another connection had registered the
\* device the closing one had registered; the flag is still true.
C25_Witness ==
    /\ last.op = "logActivity"
    /\ last.req = "disconnect"
    /\ last.outcome = "resolved"
    /\ \E d \in KnownDevices :
           /\ d \in DOMAIN connectedDevices
           /\ replacedOwner[d] = last.conn
           /\ connectedDevices[d].socketId # last.conn
           /\ simConnected[d]


\* C26: a device:register of connection B for a device id makes B the
\* owner of its registration, whoever owned it; and no step of the
\* disconnect handler of a connection A (before or after its activity-log
\* write) removes or changes a registration that A does not own, sets the
\* connected flag of its device to false, or emits device:disconnect for
\* it: so after B registered d over A's registration, A's disconnect leaves
\* B's registration, d's flag and the admins alone.
C26_OverwrittenOwnerLeavesNoTrace ==
    [][ /\ (last'.op = "device:register" /\ last'.outcome = "ok") =>
               connectedDevices'[last'.data.deviceId].socketId = last'.conn
        /\ (\/ last'.op = "disconnect"
            \/ last'.op = "logActivity" /\ last'.req = "disconnect") =>
               \A d \in DOMAIN connectedDevices :
                   connectedDevices[d].socketId # last'.conn =>
                       /\ d \in DOMAIN connectedDevices'
                       /\ connectedDevices'[d] = connectedDevices[d]
                       /\ d \in KnownDevices => simConnected'[d] = simConnected[d]
                       /\ \A e \in emitted' :
                              ~(e.name = "device:disconnect" /\ e.deviceId = d)
      ]_vars

\* A bound connection whose device another, still open connection had
\* registered over it has closed and its handler has run its loop, with a
\* connection in the admin's room: the registration is the other
\* connection's, the flag is true and nothing was emitted.
C26_Witness ==
    /\ last.op = "logActivity"
    /\ last.req = "disconnect"
    /\ last.outcome = "resolved"
    /\ emitted = {}
    /\ \E r \in Conns : r # last.conn /\ DEFAULT_ADMIN.id \in rooms[r]
    /\ \E d \in KnownDevices :
           /\ d \in DOMAIN connectedDevices
           /\ replacedOwner[d] = last.conn
           /\ connectedDevices[d].socketId \in Conns \ {last.conn}
           /\ status[connectedDevices[d].socketId] = "open"
           /\ simConnected[d]


\* C27: the requesting connection gets exactly one reply to a control
\* request: the step that handles the request emits one event to it, the
\* result event or the error event of the operation, and when the handler
\* resumes after its activity-log write, whether the write succeeded or
\* failed, it emits nothing more.
C27_ExactlyOneReply ==
    /\ last.op \in ControlOps =>
           /\ Cardinality({e \in emitted : e.to = last.conn}) = 1
           /\ \A e \in emitted :
                  e.name \in {ResultEvent(last.op), ErrorEvent(last.op)}
    /\ (last.op = "logActivity" /\ last.req \in ControlOps) => emitted = {}


\* What the step that handles an admin:join, a device:register or a
\* control request does, stated without a look at adminSessions but for
\* the activity-log write of a request: the same for a connection that
\* never authenticated, for one bound to the admin it names and for one
\* bound to another admin.
HandledWhoeverAsks ==
    LET c == last'.conn
        data == last'.data
        bound == MapGet(adminSessions, c) # NoAdmin
    IN  /\ (last'.op = "admin:join" /\ data.present) =>
               /\ rooms' = [rooms EXCEPT ![c] = @ \cup {data.adminId}]
               /\ emitted' = {Ev(c, "devices:list", "", NoAdmin, TRUE, "",
                                 DOMAIN connectedDevices)}
               /\ UNCHANGED <<adminSessions, connectedDevices, activity, pending>>
        /\ (last'.op = "device:register" /\ data.present) =>
               /\ connectedDevices'[data.deviceId].socketId = c
               /\ emitted' =
                      {Ev(r, "device:connect", data.deviceId, NoAdmin, TRUE, "", {}) :
                           r \in {x \in Conns : data.adminId \in rooms[x] /\ x # c}}
                      \cup {Ev(c, "device:registered", data.deviceId, NoAdmin,
                               TRUE, "", {})}
               /\ UNCHANGED <<adminSessions, rooms, activity, pending>>
        /\ (last'.op \in ControlOps /\ data.present) =>
               /\ emitted' = {Ev(c, ResultEvent(last'.op), data.deviceId, NoAdmin,
                                 TRUE, "", {})}
               /\ UNCHANGED <<adminSessions, connectedDevices, rooms, activity>>
               /\ ~bound => pending' = pending
               /\ bound =>
                      /\ Len(pending') = Len(pending) + 1
                      /\ pending'[Len(pending')].kind = "request"
                      /\ pending'[Len(pending')].adminId = MapGet(adminSessions, c)
                      /\ pending'[Len(pending')].deviceId = data.deviceId

C29_RequestsOnlyTimeOut ==
    /\ promise.state # "resolved"
    /\ promise.ack = "none"
    /\ promise.timer # "cleared"
    /\ promise.state = "rejected" =>
           \/ promise.timer = "none" /\ promise.value = "Socket not connected"
           \/ promise.timer = "fired" /\ promise.value = "Socket emission timeout"
    /\ promise.timer = "armed" => promise.state = "pending"
    /\ promise.timer = "fired" => promise.state = "rejected"

\* The relay handled a control request and its result event is on its way
\* to the client, whose promise has just been rejected by the timer.
C29_Witness ==
    /\ promise.request = "handled"
    /\ promise.event \in ControlOps
    /\ promise.state = "rejected"
    /\ promise.value = "Socket emission timeout"
    /\ \E e \in emitted :
           e.to = call.socket /\ e.name = ResultEvent(promise.event) /\ e.success


\* C30: every call of initDatabase, also one that overlaps the first
\* initialisation, returns the same database instance, and a read made
\* through any call returns every activity row written so far through any
\* other.
C30_OneDatabaseInstance ==
    [][ /\ \A t, u \in InitCallers :
               (call'.database[t] # 0 /\ call'.database[u] # 0) =>
                   call'.database[t] = call'.database[u]
        /\ call'.fn = "getRecentActivity" =>
               call'.result = {w \in InitCallers : call.pc[w] = "wrote"}
      ]_vars

====
